---- MODULE Spec2Model ----
(***************************************************************************)
(* Radix heap (monotone priority queue) of src/src/lib.rs: 33 buckets, a   *)
(* baseline "toplast" (key of the last extracted element) and a running    *)
(* element count "length".  Keys are u32, values are any Ord type; the     *)
(* model draws both from small ranges, and keeps the size in bytes of a    *)
(* stored (u32, V) pair in "esize", which the growth of a Vec depends on.  *)
(***************************************************************************)
EXTENDS Integers, Sequences, FiniteSets, Bags

VARIABLES buckets, toplast, length, hint, esize, panic, last, ins, outs, cleared

heapvars == <<buckets, toplast, length>>
vars == <<buckets, toplast, length, hint, esize, panic, last, ins, outs, cleared>>

\* ---- bounds of the model ----
MaxKey == 2
MaxVal == 2
MaxPush == 3
MaxHint == 12
MaxCapPush == 2

\* ---- program constants ----
NumBuckets == 33
KeyBits == 32
U32Min == 0
\* The slice length up to which sort_unstable_by runs an insertion sort.
SmallSortLen == 20
\* size_of::<(u32, &str)>(), the pair of the repository's tests and example
\* (64-bit target).
StrPairSize == 24

Keys == 0..MaxKey
Vals == 1..MaxVal

\* The pair sizes size_of::<(u32, V)>() the capacity runs draw V from: the
\* tests' &str, and value types on either side of the size at which a
\* growing Vec stops allocating room for four elements at once.
ElemSizes == {StrPairSize, 1024, 1028}

\* The capacity argument of RadixHeap::new: None or Some(n).
Hints == {<<>>} \cup {<<n>> : n \in 0..MaxHint}

\* Option<(u32, V)>: None is the empty sequence, Some(p) the one-element one.
None == <<>>
Some(p) == <<p>>

\* ---- u32 bit operations ----
RECURSIVE Xor(_, _)
Xor(a, b) ==
    IF a = 0 THEN b
    ELSE IF b = 0 THEN a
    ELSE (((a % 2) + (b % 2)) % 2) + (2 * Xor(a \div 2, b \div 2))

RECURSIVE BitLen(_)
BitLen(x) == IF x = 0 THEN 0 ELSE 1 + BitLen(x \div 2)

leading_zeros(x) == KeyBits - BitLen(x)

\* ---- Bucket ----
\* A bucket: its index, cached top, items, and the capacity of the items Vec.
\* BucketWithCapacity is the bucket RadixHeap::new builds
\* (Vec::with_capacity(capacity.unwrap_or(0))), NewBucket the one pop puts in
\* place of the restructured bucket (Vec::new()).
BucketWithCapacity(i, capacity) ==
    [index |-> i, top |-> None, items |-> <<>>,
     cap |-> IF capacity = None THEN 0 ELSE capacity[1]]

NewBucket(i) == [index |-> i, top |-> None, items |-> <<>>, cap |-> 0]

BucketCapacity(b) == b.cap

\* Vec: the smallest capacity a growing Vec allocates, by element size.
MinNonZeroCap ==
    IF esize = 1 THEN 8 ELSE IF esize <= 1024 THEN 4 ELSE 1

\* Vec::push on a Vec of length len and capacity cap: a full Vec grows to the
\* larger of twice its capacity and len + 1, and to MinNonZeroCap at least.
VecGrow(cap, len) ==
    IF len < cap THEN cap
    ELSE LET want == IF 2 * cap > len + 1 THEN 2 * cap ELSE len + 1
         IN IF want > MinNonZeroCap THEN want ELSE MinNonZeroCap

BucketEmpty(b) == b.items = <<>>

BucketLength(b) == Len(b.items)

BucketClear(b) == [b EXCEPT !.items = <<>>, !.top = None]

\* Bug variant: a later entry with an equal key displaces the cached top.
BucketPush_LastWins(b, key, val) ==
    [b EXCEPT
        !.items = Append(@, <<key, val>>),
        !.cap = VecGrow(@, Len(b.items)),
        !.top = IF b.index = 0 THEN Some(<<key, val>>)
                ELSE IF b.top # None
                     THEN (IF key <= b.top[1][1] THEN Some(<<key, val>>) ELSE b.top)
                     ELSE Some(<<key, val>>)]

BucketPush(b, key, val) ==
    [b EXCEPT
        !.items = Append(@, <<key, val>>),
        !.cap = VecGrow(@, Len(b.items)),
        !.top = IF b.index = 0 THEN Some(<<key, val>>)
                ELSE IF b.top # None
                     THEN (IF key < b.top[1][1] THEN Some(<<key, val>>) ELSE b.top)
                     ELSE Some(<<key, val>>)]

\* Iterator::min_by_key: the first of the elements with the minimal key.
MinByKey(items) ==
    IF items = <<>> THEN None
    ELSE LET i == CHOOSE i \in 1..Len(items) :
                    /\ \A j \in 1..Len(items) : items[i][1] <= items[j][1]
                    /\ \A j \in 1..(i - 1) : items[j][1] > items[i][1]
         IN Some(items[i])

\* Iterator::position with the closure of Bucket::pop: index of the first
\* item equal to the pair in top, 0 when there is none (Rust's None).
Position(items, top) ==
    IF top = None THEN 0
    ELSE LET hits == {i \in 1..Len(items) : items[i] = top[1]}
         IN IF hits = {} THEN 0
            ELSE CHOOSE i \in hits : \A j \in hits : i <= j

RemoveAt(items, i) == SubSeq(items, 1, i - 1) \o SubSeq(items, i + 1, Len(items))

\* Bucket::pop: the bucket afterwards, the returned option, and the panic
\* raised ("none" when it returns).
BucketPop(b) ==
    LET top == b.top
        newtop == MinByKey(b.items)
        pos == Position(b.items, top)
    IN IF newtop # None
       THEN IF pos = 0
            THEN [bucket |-> [b EXCEPT !.top = newtop], ret |-> None, panic |-> "unwrap_none"]
            ELSE [bucket |-> [b EXCEPT !.top = newtop, !.items = RemoveAt(@, pos)],
                  ret |-> top, panic |-> "none"]
       ELSE IF top # None
            THEN [bucket |-> [b EXCEPT !.top = newtop], ret |-> None, panic |-> "assert_top"]
            ELSE [bucket |-> [b EXCEPT !.top = newtop], ret |-> top, panic |-> "none"]

\* ---- RadixHeap ----
Heap == [buckets |-> buckets, toplast |-> toplast, length |-> length]

\* Bug variant: the hint is divided among the buckets.
NewHeap_Shared(capacity) ==
    [buckets |-> [i \in 0..(NumBuckets - 1) |->
                     BucketWithCapacity(i, IF capacity = None THEN None
                                           ELSE Some(capacity[1] \div NumBuckets))],
     toplast |-> U32Min,
     length |-> 0]

NewHeap(capacity) ==
    [buckets |-> [i \in 0..(NumBuckets - 1) |-> BucketWithCapacity(i, capacity)],
     toplast |-> U32Min,
     length |-> 0]

HeapEmpty(h) == h.length = 0

\* Bug variant: the leading-zero count itself is used as the bucket index.
BucketOf_LeadingZeros(key, base) ==
    IF key = base THEN 0 ELSE leading_zeros(Xor(key, base))

\* Bug variant: the bucket index is counted from the wrong end.
BucketOf_Reversed(key, base) ==
    IF key = base THEN 0 ELSE NumBuckets - (KeyBits - leading_zeros(Xor(key, base)))

BucketOf(key, base) ==
    IF key = base THEN 0 ELSE KeyBits - leading_zeros(Xor(key, base))

\* Bug variant: a key equal to the baseline is rejected too.
HeapPush_RejectEqual(h, key, val) ==
    IF key <= h.toplast
    THEN [heap |-> h, ok |-> FALSE]
    ELSE LET bucket == BucketOf(key, h.toplast)
         IN [heap |-> [h EXCEPT !.buckets[bucket] = BucketPush(@, key, val),
                                !.length = @ + 1],
             ok |-> TRUE]

\* Bug variant: the length is counted before the key is checked.
HeapPush_CountFirst(h, key, val) ==
    IF key < h.toplast
    THEN [heap |-> [h EXCEPT !.length = @ + 1], ok |-> FALSE]
    ELSE LET bucket == BucketOf(key, h.toplast)
         IN [heap |-> [h EXCEPT !.buckets[bucket] = BucketPush(@, key, val),
                                !.length = @ + 1],
             ok |-> TRUE]

\* Bug variant: keys below the baseline are accepted.
HeapPush_NoGuard(h, key, val) ==
    LET bucket == BucketOf(key, h.toplast)
    IN [heap |-> [h EXCEPT !.buckets[bucket] = BucketPush(@, key, val),
                           !.length = @ + 1],
        ok |-> TRUE]

HeapPush(h, key, val) ==
    IF key < h.toplast
    THEN [heap |-> h, ok |-> FALSE]
    ELSE LET bucket == BucketOf(key, h.toplast)
         IN [heap |-> [h EXCEPT !.buckets[bucket] = BucketPush(@, key, val),
                                !.length = @ + 1],
             ok |-> TRUE]

\* The set of indices of non-empty buckets, and the first of them in scan
\* order (-1 when the scan of pop/peek finds none).
NonEmpty(h) == {i \in 0..(NumBuckets - 1) : ~BucketEmpty(h.buckets[i])}

FirstNonEmpty(h) ==
    LET ne == NonEmpty(h)
    IN IF ne = {} THEN -1
       ELSE CHOOSE i \in ne : \A j \in ne : i <= j

\* The re-insertion loop of pop: n iterations of current.pop() and push.
RECURSIVE Reinsert(_, _, _)
Reinsert(h, current, n) ==
    IF n = 0 THEN [heap |-> h, current |-> current, panic |-> "none"]
    ELSE LET r == BucketPop(current)
         IN IF r.panic # "none"
            THEN [heap |-> h, current |-> r.bucket, panic |-> r.panic]
            ELSE IF r.ret = None
            THEN [heap |-> h, current |-> r.bucket, panic |-> "unreachable"]
            ELSE LET p == HeapPush(h, r.ret[1][1], r.ret[1][2])
                 IN IF ~p.ok
                    THEN [heap |-> h, current |-> r.bucket, panic |-> "unwrap_err"]
                    ELSE Reinsert(p.heap, r.bucket, n - 1)

\* Bug variant: the remaining entries stay in the bucket they were in.
Restructure_KeepBucket(h, index, top) ==
    [heap |-> [h EXCEPT !.length = @ - 1], ret |-> top, panic |-> "none"]

\* Lines 161-181 of pop: replace bucket `index` by a fresh one, re-insert the
\* entries of its copy, check the copy is empty, decrement length.
Restructure(h, index, top) ==
    LET current == h.buckets[index]
        h1 == [h EXCEPT !.buckets[index] = NewBucket(index)]
        r == IF ~BucketEmpty(current)
             THEN Reinsert(h1, current, BucketLength(current))
             ELSE [heap |-> h1, current |-> current, panic |-> "none"]
    IN IF r.panic # "none"
       THEN [heap |-> r.heap, ret |-> None, panic |-> r.panic]
       ELSE IF ~BucketEmpty(r.current)
       THEN [heap |-> r.heap, ret |-> None, panic |-> "assert_empty"]
       ELSE [heap |-> [r.heap EXCEPT !.length = @ - 1], ret |-> top, panic |-> "none"]

\* pop when the first non-empty bucket is bucket 0.
PopZero(h) ==
    LET h1 == [h EXCEPT !.length = @ - 1]
        r == BucketPop(h1.buckets[0])
    IN [heap |-> [h1 EXCEPT !.buckets[0] = r.bucket],
        ret |-> r.ret, panic |-> r.panic]

\* Bug variant: the baseline is not advanced to the extracted key.
PopNonZero_KeepBaseline(h, idx) ==
    LET r == BucketPop(h.buckets[idx])
        h1 == [h EXCEPT !.buckets[idx] = r.bucket]
    IN IF r.panic # "none"
       THEN [heap |-> h1, ret |-> None, panic |-> r.panic]
       ELSE IF r.ret = None
       THEN [heap |-> h1, ret |-> None, panic |-> "none"]
       ELSE Restructure(h1, idx, r.ret)

\* pop when the first non-empty bucket is bucket idx > 0.
PopNonZero(h, idx) ==
    LET r == BucketPop(h.buckets[idx])
        h1 == [h EXCEPT !.buckets[idx] = r.bucket]
    IN IF r.panic # "none"
       THEN [heap |-> h1, ret |-> None, panic |-> r.panic]
       ELSE IF r.ret = None
       THEN [heap |-> h1, ret |-> None, panic |-> "none"]
       ELSE Restructure([h1 EXCEPT !.toplast = r.ret[1][1]], idx, r.ret)

HeapPop(h) ==
    IF HeapEmpty(h) THEN [heap |-> h, ret |-> None, panic |-> "none"]
    ELSE LET idx == FirstNonEmpty(h)
         IN IF idx = 0 THEN PopZero(h)
            ELSE IF idx > 0 THEN PopNonZero(h, idx)
            ELSE Restructure(h, 0, None)

HeapPeek(h) ==
    IF HeapEmpty(h) THEN None
    ELSE LET idx == FirstNonEmpty(h)
         IN IF idx >= 0 THEN h.buckets[idx].top ELSE None

\* Bug variant: clear also resets the baseline.
HeapClear_ResetBaseline(h) ==
    [h EXCEPT !.buckets = [i \in 0..(NumBuckets - 1) |-> BucketClear(h.buckets[i])],
              !.length = 0,
              !.toplast = U32Min]

HeapClear(h) ==
    [h EXCEPT !.buckets = [i \in 0..(NumBuckets - 1) |-> BucketClear(h.buckets[i])],
              !.length = 0]

\* RadixHeap::tuples: the items of the buckets 0..32, concatenated.
RECURSIVE TuplesFrom(_, _)
TuplesFrom(h, i) ==
    IF i >= NumBuckets THEN <<>>
    ELSE h.buckets[i].items \o TuplesFrom(h, i + 1)

\* Bug variant: the iteration starts after bucket 0.
HeapTuples_SkipZero(h) == TuplesFrom(h, 1)

HeapTuples(h) == TuplesFrom(h, 0)

\* sort_unstable_by on the keys, as the insertion sort the standard library
\* runs on short slices: e goes after the entries with a key <= its own.
RECURSIVE InsertByKey(_, _)
InsertByKey(s, e) ==
    IF s = <<>> THEN <<e>>
    ELSE IF e[1] < s[Len(s)][1]
         THEN Append(InsertByKey(SubSeq(s, 1, Len(s) - 1), e), s[Len(s)])
         ELSE Append(s, e)

RECURSIVE SortByKey(_)
SortByKey(s) ==
    IF s = <<>> THEN <<>>
    ELSE InsertByKey(SortByKey(SubSeq(s, 1, Len(s) - 1)), s[Len(s)])

\* The sequences with the entries of s in non-decreasing key order.
KeySortedPerms(s) ==
    {t \in [1..Len(s) -> {s[n] : n \in 1..Len(s)}] :
        /\ \A n \in 1..(Len(t) - 1) : t[n][1] <= t[n + 1][1]
        /\ \A e \in {s[n] : n \in 1..Len(s)} :
               Cardinality({n \in 1..Len(s) : s[n] = e})
                   = Cardinality({n \in 1..Len(t) : t[n] = e})}

\* sort_unstable_by on the keys: the results it can give.  Up to SmallSortLen
\* entries it is the insertion sort; beyond that the order of entries with
\* equal keys is not determined.
SortUnstableByKey(s) ==
    IF Len(s) <= SmallSortLen THEN {SortByKey(s)} ELSE KeySortedPerms(s)

\* RadixHeap::sorted_tuples: the set of sequences it can return.
HeapSortedTuples(h) == SortUnstableByKey(HeapTuples(h))

\* RadixHeap::keys: the keys of sorted_tuples, the same sequence for every
\* order sort_unstable_by gives to entries of equal key.
HeapKeys(h) ==
    LET t == SortByKey(HeapTuples(h)) IN [n \in 1..Len(t) |-> t[n][1]]

\* RadixHeap::capacity: the fold of the bucket capacities.
RECURSIVE SumCapacity(_, _)
SumCapacity(h, i) ==
    IF i < 0 THEN 0 ELSE BucketCapacity(h.buckets[i]) + SumCapacity(h, i - 1)

HeapCapacity(h) == SumCapacity(h, NumBuckets - 1)

\* ---- the state machine ----
\* last: the last call, its key argument, the baseline and length it saw and
\* what it returned.  ins / outs: the pairs inserted successfully (a bag) and
\* the pairs extracted (in call order).  cleared: whether clear was called.
Call(op, key, ok, ret) ==
    [op |-> op, key |-> key, ok |-> ok, ret |-> ret,
     base |-> toplast, len |-> length]

Init ==
    /\ hint = None
    /\ esize = StrPairSize
    /\ buckets = NewHeap(hint).buckets
    /\ toplast = NewHeap(hint).toplast
    /\ length = NewHeap(hint).length
    /\ panic = "none"
    /\ last = [op |-> "new", key |-> 0, ok |-> TRUE, ret |-> None,
               base |-> 0, len |-> 0]
    /\ ins = EmptyBag
    /\ outs = <<>>
    /\ cleared = FALSE

Push(key, val) ==
    /\ panic = "none"
    /\ LET r == HeapPush(Heap, key, val)
       IN /\ r.ok => BagCardinality(ins) < MaxPush
          /\ buckets' = r.heap.buckets
          /\ toplast' = r.heap.toplast
          /\ length' = r.heap.length
          /\ last' = Call("push", key, r.ok, None)
          /\ ins' = IF r.ok THEN ins (+) SetToBag({<<key, val>>}) ELSE ins
    /\ UNCHANGED <<hint, esize, panic, outs, cleared>>

Pop ==
    /\ panic = "none"
    /\ LET r == HeapPop(Heap)
       IN /\ buckets' = r.heap.buckets
          /\ toplast' = r.heap.toplast
          /\ length' = r.heap.length
          /\ panic' = r.panic
          /\ last' = Call("pop", 0, r.panic = "none", r.ret)
          /\ outs' = IF r.ret # None THEN Append(outs, r.ret[1]) ELSE outs
    /\ UNCHANGED <<hint, esize, ins, cleared>>

Peek ==
    /\ panic = "none"
    /\ last' = Call("peek", 0, TRUE, HeapPeek(Heap))
    /\ UNCHANGED <<buckets, toplast, length, hint, esize, panic, ins, outs, cleared>>

Clear ==
    /\ panic = "none"
    /\ LET h == HeapClear(Heap)
       IN /\ buckets' = h.buckets
          /\ toplast' = h.toplast
          /\ length' = h.length
    /\ last' = Call("clear", 0, TRUE, None)
    /\ cleared' = TRUE
    /\ UNCHANGED <<hint, esize, panic, ins, outs>>

Next ==
    \/ \E key \in Keys, val \in Vals : Push(key, val)
    \/ Pop
    \/ Peek
    \/ Clear

Spec == Init /\ [][Next]_vars

\* ---- round trip: all inserts first, then extraction only ----
RTPush(key, val) == last.op \in {"new", "push"} /\ Push(key, val)

RTPop == Pop

NextRT ==
    \/ \E key \in Keys, val \in Vals : RTPush(key, val)
    \/ RTPop

SpecRT == Init /\ [][NextRT]_vars

\* ---- the read-only projections ----
Tuples ==
    /\ panic = "none"
    /\ last' = Call("tuples", 0, TRUE, HeapTuples(Heap))
    /\ UNCHANGED <<buckets, toplast, length, hint, esize, panic, ins, outs, cleared>>

SortedTuples ==
    /\ panic = "none"
    /\ \E t \in HeapSortedTuples(Heap) : last' = Call("sorted_tuples", 0, TRUE, t)
    /\ UNCHANGED <<buckets, toplast, length, hint, esize, panic, ins, outs, cleared>>

KeysCall ==
    /\ panic = "none"
    /\ last' = Call("keys", 0, TRUE, HeapKeys(Heap))
    /\ UNCHANGED <<buckets, toplast, length, hint, esize, panic, ins, outs, cleared>>

NextProj ==
    \/ \E key \in Keys, val \in Vals : Push(key, val)
    \/ Pop
    \/ Tuples
    \/ SortedTuples
    \/ KeysCall

SpecProj == Init /\ [][NextProj]_vars

\* ---- construction with a capacity hint, and the size queries ----
InitCap ==
    /\ hint \in Hints
    /\ esize \in ElemSizes
    /\ buckets = NewHeap(hint).buckets
    /\ toplast = NewHeap(hint).toplast
    /\ length = NewHeap(hint).length
    /\ panic = "none"
    /\ last = [op |-> "new", key |-> 0, ok |-> TRUE, ret |-> None,
               base |-> 0, len |-> 0]
    /\ ins = EmptyBag
    /\ outs = <<>>
    /\ cleared = FALSE

Capacity ==
    /\ panic = "none"
    /\ last' = Call("capacity", 0, TRUE, <<HeapCapacity(Heap)>>)
    /\ UNCHANGED <<buckets, toplast, length, hint, esize, panic, ins, outs, cleared>>

Length ==
    /\ panic = "none"
    /\ last' = Call("length", 0, TRUE, <<length>>)
    /\ UNCHANGED <<buckets, toplast, length, hint, esize, panic, ins, outs, cleared>>

Empty ==
    /\ panic = "none"
    /\ last' = Call("empty", 0, TRUE, <<HeapEmpty(Heap)>>)
    /\ UNCHANGED <<buckets, toplast, length, hint, esize, panic, ins, outs, cleared>>

\* Inserts of the capacity runs: at most MaxCapPush of them.
CapPush(key, val) == BagCardinality(ins) < MaxCapPush /\ Push(key, val)

CapPop == Pop

NextCap ==
    \/ \E key \in Keys, val \in Vals : CapPush(key, val)
    \/ CapPop
    \/ Capacity
    \/ Length
    \/ Empty

SpecCap == InitCap /\ [][NextCap]_vars

\* ---- helpers of the properties ----
RECURSIVE BagOfSeq(_)
BagOfSeq(s) ==
    IF s = <<>> THEN EmptyBag ELSE BagOfSeq(Tail(s)) (+) SetToBag({Head(s)})

SortedKeys(s) == \A i \in 1..(Len(s) - 1) : s[i][1] <= s[i + 1][1]

\* The entries stored in the heap, and how many there are.
Stored == {buckets[i].items[j] : <<i, j>> \in
              {<<i, j>> \in (0..(NumBuckets - 1)) \X (1..(MaxPush + 1)) :
                   j <= Len(buckets[i].items)}}

RECURSIVE SumLen(_)
SumLen(i) == IF i < 0 THEN 0 ELSE Len(buckets[i].items) + SumLen(i - 1)

StoredCount == SumLen(NumBuckets - 1)

\* ---- C1 ----
\* C1: inserting a multiset of pairs into a new heap and extracting until the
\* heap is empty never fails, yields non-decreasing keys, and the multiset of
\* extracted pairs equals the multiset inserted.
C1_RoundTrip ==
    /\ panic = "none"
    /\ SortedKeys(outs)
    /\ (length = 0 => BagOfSeq(outs) = ins)

\* ---- C2 ----
\* C2: extract_min returns absent iff the heap is empty; with size > 0 it
\* completes without an internal failure and returns a present pair.
C2_ExtractPresent ==
    last.op = "pop" =>
        /\ (last.len = 0 => last.ret = None)
        /\ (last.len > 0 => (panic = "none" /\ last.ret # None))

\* ---- C3 ----
\* C3: the keys returned by the successful extract_min calls, in call order,
\* are non-decreasing, whatever inserts, peeks and clears come between.
C3_Monotone == SortedKeys(outs)

C3_Witness ==
    /\ panic = "none"
    /\ Len(outs) >= 2
    /\ outs[1][1] < outs[Len(outs)][1]
    /\ length > 0

\* ---- C4 ----
\* C4: peek_min leaves the heap unchanged, and an extract_min called right
\* after it returns exactly the pair peek_min reported.
C4_PeekAgree ==
    [][/\ (last'.op = "peek" => UNCHANGED heapvars)
       /\ ((last.op = "peek" /\ last'.op = "pop") =>
              (panic' = "none" /\ last'.ret = last.ret))]_vars

\* ---- C5 ----
\* p is present, is one of the entries, and no entry has a smaller key.
IsStoredMin(p, entries) ==
    /\ p # None
    /\ p[1] \in entries
    /\ \A e \in entries : p[1][1] <= e[1]

HoldsEntries == panic = "none" /\ length > 0 /\ StoredCount > 0

\* C5: in every state that holds entries, the pair peek_min reports and the
\* pair extract_min returns is a stored entry with a key <= every stored key.
C5_MinExtract ==
    [][/\ (HoldsEntries' => IsStoredMin(HeapPeek(Heap), Stored)')
       /\ ((HoldsEntries /\ last'.op = "pop" /\ last'.ret # None) =>
              IsStoredMin(last'.ret, Stored))]_vars

\* ---- C6 ----
\* C6: insert fails with InvalidKey exactly when key < baseline at the time
\* of the call, and succeeds for every key >= baseline.
C6_InsertGuard ==
    last.op = "push" => (last.ok <=> last.key >= last.base)

C6_Witness ==
    /\ last.op = "push"
    /\ ~last.ok
    /\ last.key < last.base

\* ---- C7 ----
\* C7: a failed insert changes no bucket, nor the baseline, nor the size.
C7_FailedInsertFrame ==
    [][(last'.op = "push" /\ ~last'.ok) => UNCHANGED heapvars]_vars

C7_Witness ==
    /\ last.op = "push"
    /\ ~last.ok
    /\ StoredCount > 0
    /\ toplast > 0

\* ---- C8 ----
\* C8: without clear, size = successful inserts - successful extractions,
\* size = number of stored entries, and is_empty <=> size = 0.
C8_Count ==
    (panic = "none" /\ ~cleared) =>
        /\ length = BagCardinality(ins) - Len(outs)
        /\ length = StoredCount
        /\ (HeapEmpty(Heap) <=> length = 0)

\* ---- C9 ----
\* C9: after clear every bucket is empty, size is 0, the baseline is what it
\* was, and the next insert succeeds exactly for keys >= that baseline.
C9_Clear ==
    [][/\ (last'.op = "clear" =>
              /\ \A i \in 0..(NumBuckets - 1) : buckets'[i].items = <<>>
              /\ length' = 0
              /\ HeapEmpty([buckets |-> buckets', toplast |-> toplast', length |-> length'])
              /\ toplast' = toplast)
       /\ ((last.op = "clear" /\ last'.op = "push") =>
              (last'.ok <=> last'.key >= last.base))]_vars

C9_Witness ==
    /\ last.op = "clear"
    /\ last.len > 0
    /\ last.base > 0

\* ---- C10 ----
\* C10: the baseline is the minimum key on a new heap, and right after every
\* successful extract_min returning (k, v) the baseline equals k.
C10_Baseline ==
    /\ (last.op = "new" => toplast = U32Min)
    /\ ((last.op = "pop" /\ last.ret # None) => toplast = last.ret[1][1])

\* A pop served by bucket 0 after an earlier pop advanced the baseline.
C10_Witness ==
    /\ last.op = "pop"
    /\ last.ret # None
    /\ last.base = toplast
    /\ toplast > U32Min
    /\ Len(outs) >= 2
    /\ outs[1][1] < toplast

\* ---- C13 ----
RECURSIVE Pow2(_)
Pow2(n) == IF n <= 0 THEN 1 ELSE 2 * Pow2(n - 1)

\* Key k belongs in bucket i under baseline base: bucket 0 holds the keys
\* equal to the baseline, bucket i > 0 those whose highest bit differing
\* from the baseline is bit i (counted from 1 at the least significant bit).
Placed(k, i, base) ==
    /\ k >= base
    /\ (i = 0 <=> k = base)
    /\ (i > 0 => (Pow2(i - 1) <= Xor(k, base) /\ Xor(k, base) < Pow2(i)))

\* C13: between operations every stored entry has a key >= baseline, lies in
\* bucket 0 iff its key equals the baseline, and otherwise lies in the bucket
\* numbered by the highest bit in which its key differs from the baseline.
C13_Placement ==
    panic = "none" =>
        \A i \in NonEmpty(Heap) :
            \A j \in 1..Len(buckets[i].items) :
                Placed(buckets[i].items[j][1], i, toplast)

C13_Witness ==
    /\ panic = "none"
    /\ last.op = "pop"
    /\ last.base < toplast
    /\ buckets[0].items # <<>>
    /\ \E i \in 1..(NumBuckets - 1) : buckets[i].items # <<>>

\* ---- C14 ----
\* C14: in every bucket the cached minimum is absent when the bucket has no
\* entries, and otherwise is an entry of the bucket with the minimal key.
C14_CachedMin ==
    panic = "none" =>
        \A i \in 0..(NumBuckets - 1) :
            LET b == buckets[i]
            IN IF b.items = <<>> THEN b.top = None
               ELSE /\ b.top # None
                    /\ \E j \in 1..Len(b.items) : b.items[j] = b.top[1]
                    /\ \A j \in 1..Len(b.items) : b.top[1][1] <= b.items[j][1]

\* ---- C19 ----
\* C19: for stored entries in buckets i < j the key in bucket i is strictly
\* smaller than the key in bucket j, so the first non-empty bucket holds a
\* globally minimal key.
C19_BucketOrder ==
    panic = "none" =>
        LET ne == NonEmpty(Heap)
            first == FirstNonEmpty(Heap)
        IN /\ \A i, j \in ne :
                  i < j =>
                      \A m \in 1..Len(buckets[i].items), n \in 1..Len(buckets[j].items) :
                          buckets[i].items[m][1] < buckets[j].items[n][1]
           /\ (first >= 0 =>
                  \E m \in 1..Len(buckets[first].items) :
                      \A i \in ne : \A n \in 1..Len(buckets[i].items) :
                          buckets[first].items[m][1] <= buckets[i].items[n][1])

C19_Witness ==
    /\ panic = "none"
    /\ Cardinality(NonEmpty(Heap)) >= 3

\* ---- C15 ----
\* The cached top of bucket b is the first, in insertion order, of its
\* entries with the minimal key.
TopIsFirstMin(b) ==
    b.items # <<>> =>
        /\ b.top # None
        /\ \E j \in 1..Len(b.items) :
               /\ b.items[j] = b.top[1]
               /\ \A m \in 1..Len(b.items) : b.items[j][1] <= b.items[m][1]
               /\ \A m \in 1..(j - 1) : b.items[m] # b.top[1]
               /\ \A m \in 1..(j - 1) : b.items[m][1] > b.items[j][1]

\* This step is a successful insert that appended to bucket i.
InsertedInto(i) ==
    /\ last'.op = "push"
    /\ last'.ok
    /\ Len(buckets'[i].items) = Len(buckets[i].items) + 1

\* An insert with the key of the cached top into non-empty bucket i keeps
\* the cached top.
EqualKeyKeepsTop(i) ==
    (/\ InsertedInto(i)
     /\ buckets[i].items # <<>>
     /\ buckets[i].top # None
     /\ last'.key = buckets[i].top[1][1])
        => buckets'[i].top = buckets[i].top

\* C15: in every bucket, bucket 0 included, the cached minimum is the
\* first-inserted of the entries with the minimal key, and an insert with a
\* key equal to the cached minimum's into a non-empty bucket leaves it
\* unchanged.
C15_TieBreak ==
    [][\A i \in 0..(NumBuckets - 1) :
           /\ (panic' = "none" => TopIsFirstMin(buckets'[i]))
           /\ EqualKeyKeepsTop(i)]_vars

\* C15 as amended: the rule holds in the buckets 1..32; in bucket 0 every
\* insert makes the inserted pair the cached minimum.
C15_TieBreakAbove0 ==
    [][/\ \A i \in 1..(NumBuckets - 1) :
              /\ TopIsFirstMin(buckets'[i])
              /\ EqualKeyKeepsTop(i)
       /\ (InsertedInto(0) =>
              buckets'[0].top = Some(buckets'[0].items[Len(buckets'[0].items)]))]_vars

C15_Witness ==
    \E i \in 1..(NumBuckets - 1) :
        /\ Len(buckets[i].items) >= 2
        /\ buckets[i].items[1][1] = buckets[i].items[2][1]
        /\ buckets[i].items[1] # buckets[i].items[2]
        /\ buckets[i].top = Some(buckets[i].items[1])

\* ---- C16 ----
\* Bucket::pop on b returns b's cached top and removes exactly one entry
\* equal to it, keeping all the others.
BucketPopOk(b) ==
    LET r == BucketPop(b)
    IN /\ r.panic = "none"
       /\ r.ret # None
       /\ r.ret = b.top
       /\ Len(r.bucket.items) = Len(b.items) - 1
       /\ BagOfSeq(r.bucket.items) (+) SetToBag({r.ret[1]}) = BagOfSeq(b.items)

\* The n successive extractions that drain bucket b are all as above.
RECURSIVE DrainOk(_, _)
DrainOk(b, n) ==
    n = 0 \/ (BucketPopOk(b) /\ DrainOk(BucketPop(b).bucket, n - 1))

\* C16: every bucket extraction an extract_min performs, on the first
\* non-empty bucket and on its drained copy during redistribution, returns
\* the cached minimum and removes exactly one entry equal to it.
C16_BucketExtract ==
    [][(last'.op = "pop" /\ length > 0 /\ FirstNonEmpty(Heap) >= 0) =>
          LET idx == FirstNonEmpty(Heap)
              b == buckets[idx]
          IN /\ BucketPopOk(b)
             /\ (idx > 0 =>
                    DrainOk(BucketPop(b).bucket, Len(b.items) - 1))]_vars

\* ---- C17 ----
\* The entries stored in the buckets 0..i of bs, as a bag.
RECURSIVE BagUpTo(_, _)
BagUpTo(bs, i) ==
    IF i < 0 THEN EmptyBag ELSE BagOfSeq(bs[i].items) (+) BagUpTo(bs, i - 1)

\* C17: when extract_min takes its result from the first non-empty bucket
\* b > 0 and other entries remain in b, then after the call b is empty and
\* those entries are stored in buckets below b; the buckets above b are
\* untouched.
C17_Redistribute ==
    [][(/\ last'.op = "pop"
        /\ length > 0
        /\ FirstNonEmpty(Heap) > 0
        /\ Len(buckets[FirstNonEmpty(Heap)].items) >= 2) =>
          LET idx == FirstNonEmpty(Heap)
          IN /\ panic' = "none"
             /\ last'.ret # None
             /\ buckets'[idx].items = <<>>
             /\ BagUpTo(buckets', idx - 1) (+) SetToBag({last'.ret[1]})
                    = BagOfSeq(buckets[idx].items)
             /\ \A j \in (idx + 1)..(NumBuckets - 1) :
                    buckets'[j].items = buckets[j].items]_vars

\* ---- C18 ----
\* C18: no operation lowers the baseline, and only an extract_min that takes
\* its result from a bucket b > 0 changes it.
C18_BaselineMonotone ==
    [][/\ toplast' >= toplast
       /\ (toplast' # toplast =>
              (last'.op = "pop" /\ length > 0 /\ FirstNonEmpty(Heap) > 0))]_vars

\* The baseline has advanced twice, and a clear and a failed insert came
\* after the first advance.
C18_Witness ==
    /\ panic = "none"
    /\ last.op = "pop"
    /\ last.base > U32Min
    /\ toplast > last.base
    /\ cleared

\* ---- C11 ----
\* t lists the stored entries bucket by bucket, 0..32, each bucket's entries
\* in insertion order.
InBucketOrder(t) ==
    /\ Len(t) = StoredCount
    /\ \A i \in 0..(NumBuckets - 1) :
           \A j \in 1..Len(buckets[i].items) :
               t[SumLen(i - 1) + j] = buckets[i].items[j]

KeysOf(t) == [n \in 1..Len(t) |-> t[n][1]]

NonDecreasing(ks) == \A n \in 1..(Len(ks) - 1) : ks[n] <= ks[n + 1]

\* C11: all_entries lists every stored entry once in bucket order,
\* sorted_entries and keys are the same multiset in non-decreasing key order,
\* and none of the three calls changes the heap.
C11_Projections ==
    [][/\ (last'.op = "tuples" =>
              (UNCHANGED heapvars /\ InBucketOrder(last'.ret)))
       /\ (last'.op = "sorted_tuples" =>
              /\ UNCHANGED heapvars
              /\ SortedKeys(last'.ret)
              /\ BagOfSeq(last'.ret) = BagUpTo(buckets, NumBuckets - 1))
       /\ (last'.op = "keys" =>
              /\ UNCHANGED heapvars
              /\ NonDecreasing(last'.ret)
              /\ BagOfSeq(last'.ret)
                     = BagOfSeq(KeysOf(HeapTuples(Heap))))]_vars

C11_Witness ==
    /\ last.op = "sorted_tuples"
    /\ Len(last.ret) >= 2
    /\ last.ret[1][1] < last.ret[2][1]
    /\ buckets[0].items # <<>>
    /\ toplast > U32Min

\* ---- C12 ----
\* C12: after construction with capacity hint H, and before any entry is
\* inserted, capacity() is 33 * H, and 0 when no hint is given.
C12_Capacity ==
    (last.op = "capacity" /\ ins = EmptyBag) =>
        last.ret = <<IF hint = None THEN 0 ELSE 33 * hint[1]>>

C12_Witness ==
    /\ last.op = "capacity"
    /\ ins = EmptyBag
    /\ hint = Some(12)
    /\ last.ret = <<396>>

====
